---- MODULE Spec2Model ----
(***************************************************************************)
(* Model of the agola gateway API client                                   *)
(* (internal/services/gateway/api/client.go).                              *)
(*                                                                         *)
(* Text is a sequence of tokens.  A token is either one byte that the      *)
(* path / URL / query code treats specially ("/", ".", "%", "&", "=", "+", *)
(* " ", ":", "{", "}", a digit, a one-letter name byte) or a literal of    *)
(* the source made only of unreserved letters and digits ("api",           *)
(* "v1alpha", "projects", ...), which every function here copies through   *)
(* unchanged.  The alphabets below hold no "?" and no "#", so url.Parse    *)
(* never splits a query or a fragment off a composed URL.                  *)
(***************************************************************************)
EXTENDS Integers, Sequences, FiniteSets, TLC

VARIABLES client, jsonContent, calls, transportLog

vars == <<client, jsonContent, calls, transportLog>>

(***************************************************************************)
(* Bounds                                                                  *)
(***************************************************************************)
MaxNameLen == 2
MaxStartLen == 2
MaxLimit == 11
MaxBodyLen == 2
NConc == 2

(***************************************************************************)
(* Text helpers                                                            *)
(***************************************************************************)
RECURSIVE SeqsUpTo(_, _)
SeqsUpTo(A, n) ==
    IF n = 0 THEN {<<>>}
    ELSE LET shorter == SeqsUpTo(A, n - 1)
         IN  shorter \cup {Append(s, a) : s \in {t \in shorter : Len(t) = n - 1}, a \in A}

RECURSIVE Flatten(_)
Flatten(ss) == IF ss = <<>> THEN <<>> ELSE Head(ss) \o Flatten(Tail(ss))

\* strings.Split(s, sep) for a one-byte separator
RECURSIVE Split(_, _)
Split(s, sep) ==
    IF \A i \in 1..Len(s) : s[i] # sep THEN <<s>>
    ELSE LET i == CHOOSE j \in 1..Len(s) : s[j] = sep /\ \A k \in 1..(j - 1) : s[k] # sep
         IN  <<SubSeq(s, 1, i - 1)>> \o Split(SubSeq(s, i + 1, Len(s)), sep)

\* strings.Join(elems, sep)
RECURSIVE JoinWith(_, _)
JoinWith(elems, sep) ==
    IF elems = <<>> THEN <<>>
    ELSE IF Len(elems) = 1 THEN elems[1]
    ELSE elems[1] \o <<sep>> \o JoinWith(Tail(elems), sep)

HexDigits == {"0", "1", "2", "3", "4", "5", "6", "7", "8", "9",
              "a", "b", "c", "d", "e", "f", "A", "B", "C", "D", "E", "F"}

Digits == <<"0", "1", "2", "3", "4", "5", "6", "7", "8", "9">>

\* strconv.Itoa
RECURSIVE Itoa(_)
Itoa(n) ==
    IF n < 0 THEN <<"-">> \o Itoa(0 - n)
    ELSE IF n < 10 THEN <<Digits[n + 1]>>
    ELSE Itoa(n \div 10) \o <<Digits[(n % 10) + 1]>>

(***************************************************************************)
(* path.Join / path.Clean                                                  *)
(***************************************************************************)
DotDot == <<".", ".">>

\* path.Clean's element loop: empty and "." elements are dropped, ".."
\* removes the element before it, cannot climb above the root of a rooted
\* path and is kept at the front of a relative one.
RECURSIVE CleanElems(_, _, _)
CleanElems(elems, rooted, out) ==
    IF elems = <<>> THEN out
    ELSE LET e == Head(elems)
             rest == Tail(elems)
         IN  IF e = <<>> \/ e = <<".">> THEN CleanElems(rest, rooted, out)
             ELSE IF e = DotDot
                  THEN IF out # <<>> /\ out[Len(out)] # DotDot
                       THEN CleanElems(rest, rooted, SubSeq(out, 1, Len(out) - 1))
                       ELSE IF rooted THEN CleanElems(rest, rooted, out)
                       ELSE CleanElems(rest, rooted, Append(out, e))
             ELSE CleanElems(rest, rooted, Append(out, e))

Clean(p) ==
    IF p = <<>> THEN <<".">>
    ELSE LET rooted == p[1] = "/"
             kept == CleanElems(Split(p, "/"), rooted, <<>>)
             body == JoinWith(kept, "/")
         IN  IF rooted THEN <<"/">> \o body
             ELSE IF body = <<>> THEN <<".">> ELSE body

JoinNoClean(elem) ==
    JoinWith(elem, "/")

\* path.Join: empty elements before the first non-empty one are skipped, the
\* rest is joined with "/" and cleaned.
Join(elem) ==
    IF \A i \in 1..Len(elem) : elem[i] = <<>> THEN <<>>
    ELSE LET first == CHOOSE i \in 1..Len(elem) :
                          elem[i] # <<>> /\ \A k \in 1..(i - 1) : elem[k] = <<>>
         IN  Clean(JoinWith(SubSeq(elem, first, Len(elem)), "/"))

(***************************************************************************)
(* url.Values, url.QueryEscape, url.Parse, URL.String                      *)
(***************************************************************************)
\* url.QueryEscape of one token: a space becomes "+", a reserved byte its
\* %XX form, everything unreserved is copied.
EscapeToken(t) ==
    CASE t = " " -> <<"+">>
      [] t = "%" -> <<"%", "2", "5">>
      [] t = "&" -> <<"%", "2", "6">>
      [] t = "+" -> <<"%", "2", "B">>
      [] t = "/" -> <<"%", "2", "F">>
      [] t = ":" -> <<"%", "3", "A">>
      [] t = "=" -> <<"%", "3", "D">>
      [] t = "{" -> <<"%", "7", "B">>
      [] t = "}" -> <<"%", "7", "D">>
      [] OTHER   -> <<t>>

QueryEscape(s) == Flatten([i \in 1..Len(s) |-> EscapeToken(s[i])])

\* The keys the client uses, in the byte order url.Values.Encode sorts them.
SortedKeys == <<"asc", "group", "limit", "phase", "rungroup", "start">>

\* url.Values is modelled as the sequence of (key, value) pairs in the order
\* of the Add calls; Add appends to the list of its key.
Add(q, key, value) == Append(q, <<key, value>>)

RECURSIVE AddAll(_, _, _)
AddAll(q, key, values) ==
    IF values = <<>> THEN q ELSE AddAll(Add(q, key, Head(values)), key, Tail(values))

\* url.Values.Encode: keys sorted, the values of a key in insertion order,
\* each pair as escaped-key "=" escaped-value, pairs joined with "&".
Encode(q) ==
    LET pairsOf(k) == SelectSeq(q, LAMBDA kv : kv[1] = k)
        ordered == Flatten([i \in 1..Len(SortedKeys) |-> pairsOf(SortedKeys[i])])
        enc(kv) == QueryEscape(<<kv[1]>>) \o <<"=">> \o QueryEscape(kv[2])
    IN  JoinWith([i \in 1..Len(ordered) |-> enc(ordered[i])], "&")

ValidEscapes(s) ==
    \A i \in 1..Len(s) :
        s[i] = "%" => /\ i + 2 <= Len(s)
                      /\ s[i + 1] \in HexDigits
                      /\ s[i + 2] \in HexDigits

\* url.Parse: a URL that starts with ":" has no protocol scheme and a "%"
\* that does not start a %XX escape is an invalid URL escape; both are
\* errors.  Otherwise the URL keeps its text (no query, no fragment).
ParseOK(raw) == ~(raw # <<>> /\ raw[1] = ":") /\ ValidEscapes(raw)

Parse(raw) == [Rest |-> raw, RawQuery |-> <<>>]

\* URL.String
String(u) == u.Rest \o (IF u.RawQuery = <<>> THEN <<>> ELSE <<"?">> \o u.RawQuery)

ApiPrefix == <<"/", "api", "/", "v1alpha">>


(***************************************************************************)
(* Client, NewClient, SetHTTPClient                                        *)
(***************************************************************************)
\* strings.TrimSuffix for a one-byte suffix
TrimSuffix(s, suffix) ==
    IF s # <<>> /\ s[Len(s)] = suffix THEN SubSeq(s, 1, Len(s) - 1) ELSE s

\* var jsonContent = http.Header{"content-type": []string{"application/json"}}
JsonContentValue == "content-type" :> <<"application/json">>

Transports == {"default", "custom"}

NewClient(url, token) ==
    [url |-> TrimSuffix(url, "/"), client |-> "default", token |-> token]

(***************************************************************************)
(* The public operations.  Each yields what it hands to getResponse or     *)
(* getParsedResponse: whether it marshals a payload first, the method, the *)
(* path, the query values and whether the 2xx body is decoded.             *)
(***************************************************************************)
Call(marshal, method, path, query, parsed) ==
    [marshal |-> marshal, method |-> method, path |-> path, query |-> query,
     parsed |-> parsed]

\* the start / limit / asc block of every list operation
listQueryLoose(q, start, limit, asc) ==
    LET q1 == IF start # <<>> THEN Add(q, "start", start) ELSE q
        q2 == IF limit >= 0 THEN Add(q1, "limit", Itoa(limit)) ELSE q1
    IN  IF asc THEN Add(q2, "asc", <<>>) ELSE q2

listQuery(q, start, limit, asc) ==
    LET q1 == IF start # <<>> THEN Add(q, "start", start) ELSE q
        q2 == IF limit > 0 THEN Add(q1, "limit", Itoa(limit)) ELSE q1
    IN  IF asc THEN Add(q2, "asc", <<>>) ELSE q2

GetProject(projectID) ==
    Call(FALSE, "GET", <<"/", "project", "/">> \o projectID, <<>>, TRUE)

getProjects(ownertype, ownername, start, limit, asc) ==
    Call(FALSE, "GET", Join(<< <<"/">>, ownertype, ownername, <<"projects">> >>),
         listQuery(<<>>, start, limit, asc), TRUE)

GetCurrentUserProjects(start, limit, asc) ==
    getProjects(<<"user">>, <<>>, start, limit, asc)

GetUserProjects(username, start, limit, asc) ==
    getProjects(<<"user">>, username, start, limit, asc)

GetOrgProjects(orgname, start, limit, asc) ==
    getProjects(<<"org">>, orgname, start, limit, asc)

createProject(ownertype, ownername) ==
    Call(TRUE, "PUT", Join(<< <<"/">>, ownertype, ownername, <<"projects">> >>),
         <<>>, TRUE)

CreateCurrentUserProject == createProject(<<"user">>, <<>>)

CreateUserProject(username) == createProject(<<"user">>, username)

CreateOrgProject(orgname) == createProject(<<"org">>, orgname)

deleteProject(ownertype, ownername, projectName) ==
    Call(FALSE, "DELETE",
         Join(<< <<"/", "projects">>, ownertype, ownername, projectName >>),
         <<>>, FALSE)

DeleteCurrentUserProject(projectName) ==
    deleteProject(<<"user">>, <<>>, projectName)

DeleteUserProject(username, projectName) ==
    deleteProject(<<"user">>, username, projectName)

DeleteOrgProject(orgname, projectName) ==
    deleteProject(<<"org">>, orgname, projectName)

ReconfigProject(projectName) ==
    Call(FALSE, "POST",
         <<"/", "projects", "/">> \o projectName \o <<"/", "reconfig">>,
         <<>>, FALSE)

GetUser(userID) ==
    Call(FALSE, "GET", <<"/", "user", "/">> \o userID, <<>>, TRUE)

GetUsers(start, limit, asc) ==
    Call(FALSE, "GET", <<"/", "users">>, listQuery(<<>>, start, limit, asc), TRUE)

CreateUser == Call(TRUE, "PUT", <<"/", "users">>, <<>>, TRUE)

DeleteUser(userName) ==
    Call(FALSE, "DELETE", <<"/", "users", "/">> \o userName, <<>>, FALSE)

CreateUserLA(userName) ==
    Call(TRUE, "PUT",
         <<"/", "users", "/">> \o userName \o <<"/", "linkedaccounts">>,
         <<>>, TRUE)

DeleteUserLA(userName, laID) ==
    Call(FALSE, "DELETE",
         <<"/", "users", "/">> \o userName \o <<"/", "linkedaccounts", "/">> \o laID,
         <<>>, FALSE)

CreateUserToken(userName) ==
    Call(TRUE, "PUT", <<"/", "users", "/">> \o userName \o <<"/", "tokens">>,
         <<>>, TRUE)

GetRun(runID) ==
    Call(FALSE, "GET", <<"/", "run", "/">> \o runID, <<>>, TRUE)

GetRuns(phaseFilter, groups, runGroups, start, limit, asc) ==
    LET q1 == AddAll(<<>>, "phase", phaseFilter)
        q2 == AddAll(q1, "group", groups)
        q3 == AddAll(q2, "rungroup", runGroups)
    IN  Call(FALSE, "GET", <<"/", "runs">>, listQuery(q3, start, limit, asc), TRUE)

GetRemoteSource(rsID) ==
    Call(FALSE, "GET", <<"/", "remotesource", "/">> \o rsID, <<>>, TRUE)

GetRemoteSources(start, limit, asc) ==
    Call(FALSE, "GET", <<"/", "remotesources">>,
         listQuery(<<>>, start, limit, asc), TRUE)

CreateRemoteSource == Call(TRUE, "PUT", <<"/", "remotesources">>, <<>>, TRUE)

DeleteRemoteSource(name) ==
    Call(FALSE, "DELETE", <<"/", "remotesources", "/">> \o name, <<>>, FALSE)

CreateOrg == Call(TRUE, "PUT", <<"/", "orgs">>, <<>>, TRUE)

DeleteOrg(orgName) ==
    Call(FALSE, "DELETE", <<"/", "orgs", "/">> \o orgName, <<>>, FALSE)


(***************************************************************************)
(* An invocation: the operation, its arguments and what the environment    *)
(* does to it (the context handed in, whether http.NewRequest reports an   *)
(* error).  "doRequest" is doRequest called on its own with a header set   *)
(* of the caller's choice.                                                 *)
(***************************************************************************)
Inv0 ==
    [op |-> "", a1 |-> <<>>, a2 |-> <<>>, start |-> <<>>, limit |-> 0,
     asc |-> FALSE, phase |-> <<>>, group |-> <<>>, rungroup |-> <<>>,
     payload |-> "good", header |-> JsonContentValue, ctx |-> "live",
     newRequestFails |-> FALSE]

Describe(inv) ==
    CASE inv.op = "GetProject" -> GetProject(inv.a1)
      [] inv.op = "GetCurrentUserProjects" ->
             GetCurrentUserProjects(inv.start, inv.limit, inv.asc)
      [] inv.op = "GetUserProjects" ->
             GetUserProjects(inv.a1, inv.start, inv.limit, inv.asc)
      [] inv.op = "GetOrgProjects" ->
             GetOrgProjects(inv.a1, inv.start, inv.limit, inv.asc)
      [] inv.op = "CreateCurrentUserProject" -> CreateCurrentUserProject
      [] inv.op = "CreateUserProject" -> CreateUserProject(inv.a1)
      [] inv.op = "CreateOrgProject" -> CreateOrgProject(inv.a1)
      [] inv.op = "DeleteCurrentUserProject" -> DeleteCurrentUserProject(inv.a2)
      [] inv.op = "DeleteUserProject" -> DeleteUserProject(inv.a1, inv.a2)
      [] inv.op = "DeleteOrgProject" -> DeleteOrgProject(inv.a1, inv.a2)
      [] inv.op = "ReconfigProject" -> ReconfigProject(inv.a1)
      [] inv.op = "GetUser" -> GetUser(inv.a1)
      [] inv.op = "GetUsers" -> GetUsers(inv.start, inv.limit, inv.asc)
      [] inv.op = "CreateUser" -> CreateUser
      [] inv.op = "DeleteUser" -> DeleteUser(inv.a1)
      [] inv.op = "CreateUserLA" -> CreateUserLA(inv.a1)
      [] inv.op = "DeleteUserLA" -> DeleteUserLA(inv.a1, inv.a2)
      [] inv.op = "CreateUserToken" -> CreateUserToken(inv.a1)
      [] inv.op = "GetRun" -> GetRun(inv.a1)
      [] inv.op = "GetRuns" ->
             GetRuns(inv.phase, inv.group, inv.rungroup, inv.start, inv.limit, inv.asc)
      [] inv.op = "GetRemoteSource" -> GetRemoteSource(inv.a1)
      [] inv.op = "GetRemoteSources" ->
             GetRemoteSources(inv.start, inv.limit, inv.asc)
      [] inv.op = "CreateRemoteSource" -> CreateRemoteSource
      [] inv.op = "DeleteRemoteSource" -> DeleteRemoteSource(inv.a1)
      [] inv.op = "CreateOrg" -> CreateOrg
      [] inv.op = "DeleteOrg" -> DeleteOrg(inv.a1)
      [] inv.op = "doRequest" -> Call(FALSE, "GET", <<"/", "users">>, <<>>, FALSE)

\* json.Marshal of a request payload: a payload that holds a cycle (or any
\* other value encoding/json rejects) is an error, any other an object.
Marshalable(payload) == payload # "cyclic"

Marshal(payload) == <<"{", payload, "}">>

OneNameOps ==
    {"GetProject", "CreateUserProject", "CreateOrgProject", "ReconfigProject",
     "GetUser", "DeleteUser", "CreateUserLA", "CreateUserToken", "GetRun",
     "GetRemoteSource", "DeleteRemoteSource", "DeleteOrg"}

TwoNameOps == {"DeleteUserProject", "DeleteOrgProject", "DeleteUserLA"}

NoArgOps == {"CreateCurrentUserProject", "CreateUser", "CreateRemoteSource", "CreateOrg"}

ListOps == {"GetCurrentUserProjects", "GetUsers", "GetRemoteSources"}

NamedListOps == {"GetUserProjects", "GetOrgProjects"}

BodyOps ==
    {"CreateCurrentUserProject", "CreateUserProject", "CreateOrgProject",
     "CreateUser", "CreateUserLA", "CreateUserToken", "CreateRemoteSource",
     "CreateOrg"}

\* Every way to invoke an operation with names from N, list arguments
\* <<start, limit, asc>> from L (LN for the list operations that also take
\* a name), filter lists from F, payloads from P and caller header sets
\* from H.
Invocations(N, L, LN, F, P, H) ==
    LET base ==
            {[Inv0 EXCEPT !.op = o, !.a1 = x] : o \in OneNameOps, x \in N}
            \cup {[Inv0 EXCEPT !.op = o, !.a1 = x, !.a2 = y] :
                      o \in TwoNameOps, x \in N, y \in N}
            \cup {[Inv0 EXCEPT !.op = "DeleteCurrentUserProject", !.a2 = y] : y \in N}
            \cup {[Inv0 EXCEPT !.op = o] : o \in NoArgOps}
            \cup {[Inv0 EXCEPT !.op = o, !.start = l[1], !.limit = l[2], !.asc = l[3]] :
                      o \in ListOps, l \in L}
            \cup {[Inv0 EXCEPT !.op = o, !.a1 = x, !.start = l[1], !.limit = l[2],
                               !.asc = l[3]] : o \in NamedListOps, x \in N, l \in LN}
            \cup {[Inv0 EXCEPT !.op = "GetRuns", !.phase = f[1], !.group = f[2],
                               !.rungroup = f[3], !.start = l[1], !.limit = l[2],
                               !.asc = l[3]] : f \in F, l \in LN}
            \cup {[Inv0 EXCEPT !.op = "doRequest", !.header = h] : h \in H}
    IN  {[i EXCEPT !.payload = p] : i \in {b \in base : b.op \in BodyOps}, p \in P}
        \cup {b \in base : b.op \notin BodyOps}


(***************************************************************************)
(* Requests, responses, errors, return values                              *)
(***************************************************************************)
NoRequest == [Method |-> "", URL |-> <<>>, Header |-> <<>>, Body |-> <<>>, via |-> ""]

NoResponse == [StatusCode |-> 0, Status |-> <<>>, Body |-> <<>>, readFails |-> FALSE]

NoError == [kind |-> "nil", text |-> <<>>]

Error(kind, text) == [kind |-> kind, text |-> text]

\* What an operation returns.  result is "none" for the operations that
\* return (response, error) only, "nil" for a nil result and "obj" for the
\* target object, whose decoded content is value.
Return(result, value, respNil, resp, err) ==
    [result |-> result, value |-> value, respNil |-> respNil, resp |-> resp, err |-> err]

NoReturn == Return("none", <<>>, TRUE, NoResponse, NoError)

(***************************************************************************)
(* doRequest                                                               *)
(***************************************************************************)
requestHeaderTokenLast(token, header) ==
    ("Authorization" :> <<"token " \o token>>) @@ header

\* req.Header.Set("Authorization", ...) on the new request's empty header,
\* then every caller entry stored over it under the caller's own key.
requestHeader(token, header) ==
    header @@ ("Authorization" :> <<"token " \o token>>)

doRequestCached(cl, ctx, method, path, query, header, ibody, newRequestFails) ==
    LET raw == cl.url \o ApiPrefix \o path
        u == [Parse(raw) EXCEPT !.RawQuery = Encode(query)]
        url == IF transportLog = {} THEN String(u)
               ELSE (CHOOSE e \in transportLog : TRUE).req.URL
    IN  [outcome |-> "do",
         req |-> [Method |-> method, URL |-> url,
                  Header |-> requestHeader(cl.token, header),
                  Body |-> ibody, via |-> cl.client]]

\* Up to the call of c.client.Do.  outcome "error" is the url.Parse error
\* returned with a nil response.  When http.NewRequest reports an error its
\* request is nil, and req.WithContext, which runs before the error is
\* looked at, dereferences it; WithContext also panics on a nil context.
doRequest(cl, ctx, method, path, query, header, ibody, newRequestFails) ==
    LET raw == cl.url \o ApiPrefix \o path
        u == [Parse(raw) EXCEPT !.RawQuery = Encode(query)]
    IN  IF ~ParseOK(raw) THEN [outcome |-> "error", req |-> NoRequest]
        ELSE IF newRequestFails \/ ctx = "nil" THEN [outcome |-> "panic", req |-> NoRequest]
        ELSE [outcome |-> "do",
              req |-> [Method |-> method, URL |-> String(u),
                       Header |-> requestHeader(cl.token, header),
                       Body |-> ibody, via |-> cl.client]]

(***************************************************************************)
(* getResponse after c.client.Do has returned                              *)
(***************************************************************************)
IsSuccessLoose(code) == code >= 200

\* resp.StatusCode/100 != 2 is the failure test
IsSuccess(code) == code \div 100 = 2

errorTextStrict(resp, data) ==
    IF Len(data) < 1 THEN resp.Status ELSE data

\* errors.New(resp.Status) for a body of at most one byte, else
\* errors.New(string(data))
errorText(resp, data) ==
    IF Len(data) <= 1 THEN resp.Status ELSE data

\* do is what Do returned: [hasResp, resp, err].  The value is what
\* getResponse returns and whether the response body is left open.
getResponse(do) ==
    IF do.err.kind # "nil"
    THEN [respNil |-> TRUE, resp |-> NoResponse, err |-> do.err, bodyOpen |-> FALSE]
    ELSE IF ~IsSuccess(do.resp.StatusCode)
    THEN IF do.resp.readFails
         THEN [respNil |-> TRUE, resp |-> NoResponse, err |-> Error("read", <<>>),
               bodyOpen |-> FALSE]
         ELSE [respNil |-> FALSE, resp |-> do.resp,
               err |-> Error("status", errorText(do.resp, do.resp.Body)),
               bodyOpen |-> FALSE]
    ELSE [respNil |-> FALSE, resp |-> do.resp, err |-> NoError, bodyOpen |-> TRUE]

(***************************************************************************)
(* json.NewDecoder(resp.Body).Decode(obj).  The decoder reads the first    *)
(* JSON value of the stream and leaves the rest unread; the values of this *)
(* model are the objects "{" content "}" whose content holds no brace.     *)
(* Anything else, an empty body and a failing read are errors.             *)
(***************************************************************************)
ObjectEnd(body) ==
    IF \E j \in 2..Len(body) : body[j] \in {"{", "}"}
    THEN CHOOSE j \in 2..Len(body) :
             body[j] \in {"{", "}"} /\ \A k \in 2..(j - 1) : body[k] \notin {"{", "}"}
    ELSE 0

DecodeOK(resp) ==
    /\ ~resp.readFails
    /\ resp.Body # <<>>
    /\ resp.Body[1] = "{"
    /\ ObjectEnd(resp.Body) # 0
    /\ resp.Body[ObjectEnd(resp.Body)] = "}"

Decoded(resp) == SubSeq(resp.Body, 2, ObjectEnd(resp.Body) - 1)

marshalFailureKeepsObject == Return("obj", <<>>, TRUE, NoResponse, Error("marshal", <<>>))

\* return nil, nil, err
marshalFailure == Return("nil", <<>>, TRUE, NoResponse, Error("marshal", <<>>))


(***************************************************************************)
(* State.  calls[c] is one invocation of a public operation on the shared  *)
(* Client: idle, inflight (c.client.Do called, not yet returned), decoding *)
(* (getResponse returned a 2xx response to getParsedResponse), done, or    *)
(* panicked.  transportLog holds every request handed to c.client.Do.      *)
(***************************************************************************)
IdleCall ==
    [pc |-> "idle", inv |-> Inv0, path |-> <<>>, req |-> NoRequest,
     delivered |-> FALSE, resp |-> NoResponse,
     gr |-> [respNil |-> TRUE, err |-> NoError],
     bodyOpen |-> FALSE, ret |-> NoReturn]

\* the calls at one of the given points
Calls(pcs) == {c \in DOMAIN calls : calls[c].pc \in pcs}

\* The operation up to c.client.Do: marshal the payload, build the path and
\* the query, doRequest.
Invoke(c, inv) ==
    /\ calls[c].pc = "idle"
    /\ LET d == Describe(inv)
           header == IF inv.op = "doRequest" THEN inv.header ELSE jsonContent
           ibody == IF d.marshal THEN Marshal(inv.payload) ELSE <<>>
           r == doRequest(client, inv.ctx, d.method, d.path, d.query, header, ibody,
                          inv.newRequestFails)
           started == [calls[c] EXCEPT !.inv = inv, !.path = d.path]
       IN  IF d.marshal /\ ~Marshalable(inv.payload)
           THEN /\ calls' = [calls EXCEPT ![c] =
                                [calls[c] EXCEPT !.pc = "done", !.inv = inv,
                                                 !.ret = marshalFailure]]
                /\ UNCHANGED transportLog
           ELSE CASE r.outcome = "error" ->
                        /\ calls' = [calls EXCEPT ![c] =
                               [started EXCEPT
                                   !.pc = "done",
                                   !.ret = Return(IF d.parsed THEN "obj" ELSE "none", <<>>,
                                                  TRUE, NoResponse, Error("url", <<>>))]]
                        /\ UNCHANGED transportLog
                  [] r.outcome = "panic" ->
                        /\ calls' = [calls EXCEPT ![c] = [started EXCEPT !.pc = "panicked"]]
                        /\ UNCHANGED transportLog
                  [] r.outcome = "do" ->
                        /\ calls' = [calls EXCEPT ![c] =
                               [started EXCEPT !.pc = "inflight", !.req = r.req]]
                        /\ transportLog' = transportLog \cup {[call |-> c, req |-> r.req]}
    /\ UNCHANGED <<client, jsonContent>>

\* c.client.Do returns do = [hasResp, resp, err]; getResponse classifies it
\* and, for an operation that does not decode or on an error, the operation
\* returns.
Respond(c, do) ==
    /\ calls[c].pc = "inflight"
    /\ calls[c].inv.op # "doRequest"
    /\ LET d == Describe(calls[c].inv)
           gr == getResponse(do)
           got == [calls[c] EXCEPT !.delivered = do.hasResp, !.resp = do.resp,
                                   !.gr = [respNil |-> gr.respNil, err |-> gr.err],
                                   !.bodyOpen = gr.bodyOpen]
       IN  IF d.parsed /\ gr.err.kind = "nil"
           THEN calls' = [calls EXCEPT ![c] = [got EXCEPT !.pc = "decoding"]]
           ELSE calls' = [calls EXCEPT ![c] =
                    [got EXCEPT !.pc = "done",
                                !.ret = Return(IF d.parsed THEN "obj" ELSE "none", <<>>,
                                               gr.respNil, gr.resp, gr.err)]]
    /\ UNCHANGED <<client, jsonContent, transportLog>>

\* getParsedResponse on a 2xx response: decode into the target, close the
\* body (deferred), return.
Decode(c) ==
    /\ calls[c].pc = "decoding"
    /\ LET resp == calls[c].resp
       IN  calls' = [calls EXCEPT ![c] =
               [calls[c] EXCEPT
                   !.pc = "done",
                   !.bodyOpen = FALSE,
                   !.ret = IF DecodeOK(resp)
                           THEN Return("obj", Decoded(resp), FALSE, resp, NoError)
                           ELSE Return("obj", <<>>, FALSE, resp, Error("decode", <<>>))]]
    /\ UNCHANGED <<client, jsonContent, transportLog>>

SetHTTPClient(t) ==
    /\ client' = [client EXCEPT !.client = t]
    /\ UNCHANGED <<jsonContent, calls, transportLog>>

(***************************************************************************)
(* Inputs                                                                  *)
(***************************************************************************)
HttpH == <<"http", ":", "/", "/", "h">>

\* base URLs handed to NewClient: plain, with a trailing slash, malformed
BaseURLs == {HttpH, HttpH \o <<"/">>, <<":">>}

NameBytes == {"a", "/", ".", "%"}

Names == SeqsUpTo(NameBytes, MaxNameLen)

StartBytes == {"a", "&", "=", "+", " ", "%"}

Starts == SeqsUpTo(StartBytes, MaxStartLen)

Limits == (0 - 1)..MaxLimit

Filters == {<<>>, << <<"a">> >>, << <<"&", "start", "=", "a">>, <<>> >>}

Payloads == {"good", "cyclic"}

CallerHeaders ==
    {<<>>,
     JsonContentValue,
     "Authorization" :> <<"Bearer x">>,
     "Authorization" :> <<>>,
     "authorization" :> <<"lower">>,
     ("Authorization" :> <<"a", "b">>) @@ JsonContentValue}

StatusCodes == {101, 199, 200, 204, 299, 300, 404, 500}

StatusText(code) ==
    CASE code = 101 -> "Switching Protocols"
      [] code = 200 -> "OK"
      [] code = 204 -> "No Content"
      [] code = 300 -> "Multiple Choices"
      [] code = 404 -> "Not Found"
      [] code = 500 -> "Internal Server Error"
      [] OTHER -> "status"

\* the status line of a response, e.g. "404 Not Found"
StatusLine(code) == Itoa(code) \o <<" ", StatusText(code)>>

BodyBytes == {"{", "}", "x"}

OrgNotFound == <<"o", "r", "g", " ", "n", "o", "t", " ", "f", "o", "u", "n", "d">>

Bodies == SeqsUpTo(BodyBytes, MaxBodyLen) \cup {OrgNotFound}

Response(code, body, readFails) ==
    [StatusCode |-> code, Status |-> StatusLine(code), Body |-> body,
     readFails |-> readFails]

\* what c.client.Do can return: a transport error and no response, or a
\* response whose body reads in full or fails on the way
DoResults ==
    {[hasResp |-> FALSE, resp |-> NoResponse, err |-> Error("transport", <<>>)]}
    \cup {[hasResp |-> TRUE, resp |-> Response(code, body, FALSE), err |-> NoError] :
              code \in StatusCodes, body \in Bodies}
    \cup {[hasResp |-> TRUE, resp |-> Response(code, body, TRUE), err |-> NoError] :
              code \in StatusCodes, body \in {<<>>, <<"{", "}">>}}

\* the environments of a call: a live context, a nil one, and a request
\* http.NewRequest refuses
WithEnv(invs) ==
    invs \cup {[i EXCEPT !.ctx = "nil"] : i \in invs}
         \cup {[i EXCEPT !.newRequestFails = TRUE] : i \in invs}

PipelineNames == {<<>>, <<"a">>, <<"%">>}

PipelineLists == {<<<<>>, 0, FALSE>>, <<<<"a">>, 10, TRUE>>}

PipelineInvocations ==
    WithEnv(Invocations(PipelineNames, PipelineLists, PipelineLists,
                        {<<<<>>, <<>>, <<>>>>}, Payloads, {}))

(***************************************************************************)
(* Spec: one call at a time through the whole pipeline                     *)
(***************************************************************************)
Init ==
    /\ client \in {NewClient(u, "s3cr3t") : u \in BaseURLs}
    /\ jsonContent = JsonContentValue
    /\ calls = [c \in {1} |-> IdleCall]
    /\ transportLog = {}

Next ==
    \/ \E c \in Calls({"idle"}) : \E inv \in PipelineInvocations : Invoke(c, inv)
    \/ \E c \in Calls({"inflight"}) : \E do \in DoResults : Respond(c, do)
    \/ \E c \in Calls({"decoding"}) : Decode(c)
    \/ \E t \in Transports : SetHTTPClient(t)

Spec == Init /\ [][Next]_vars


(***************************************************************************)
(* SpecBuild: request building over wide argument sets.  A call stops once *)
(* its request is handed to the transport.                                 *)
(***************************************************************************)
Tokens == {"", "s3cr3t"}

FullLists == Starts \X Limits \X BOOLEAN

SmallLists == {<<>>, <<"&", "a">>} \X {0, 10} \X BOOLEAN

BuildInvocations ==
    Invocations(Names, FullLists, SmallLists, Filters \X Filters \X Filters,
                {"good"}, CallerHeaders)

InitBuild ==
    /\ client \in {NewClient(u, t) : u \in BaseURLs, t \in Tokens}
    /\ jsonContent = JsonContentValue
    /\ calls = [c \in {1} |-> IdleCall]
    /\ transportLog = {}

NextBuild == \E c \in Calls({"idle"}) : \E inv \in BuildInvocations : Invoke(c, inv)

SpecBuild == InitBuild /\ [][NextBuild]_vars

(***************************************************************************)
(* Reading a request back, as a server does                                *)
(***************************************************************************)
\* the query string of a URL: what follows the first "?"
QueryOf(url) ==
    IF \E i \in 1..Len(url) : url[i] = "?"
    THEN LET i == CHOOSE j \in 1..Len(url) :
                      url[j] = "?" /\ \A k \in 1..(j - 1) : url[k] # "?"
         IN  SubSeq(url, i + 1, Len(url))
    ELSE <<>>

UnescapeByte(h1, h2) ==
    CASE <<h1, h2>> = <<"2", "5">> -> "%"
      [] <<h1, h2>> = <<"2", "6">> -> "&"
      [] <<h1, h2>> = <<"2", "B">> -> "+"
      [] <<h1, h2>> = <<"2", "F">> -> "/"
      [] <<h1, h2>> = <<"3", "A">> -> ":"
      [] <<h1, h2>> = <<"3", "D">> -> "="
      [] <<h1, h2>> = <<"7", "B">> -> "{"
      [] <<h1, h2>> = <<"7", "D">> -> "}"
      [] OTHER -> "?"

\* url.QueryUnescape
RECURSIVE QueryUnescape(_)
QueryUnescape(s) ==
    IF s = <<>> THEN <<>>
    ELSE IF s[1] = "+" THEN <<" ">> \o QueryUnescape(Tail(s))
    ELSE IF s[1] = "%" /\ Len(s) >= 3
         THEN <<UnescapeByte(s[2], s[3])>> \o QueryUnescape(SubSeq(s, 4, Len(s)))
    ELSE <<s[1]>> \o QueryUnescape(Tail(s))

\* url.ParseQuery: the (key, value) pairs of a query string, in order
ParseQuery(query) ==
    LET parts == SelectSeq(Split(query, "&"), LAMBDA part : part # <<>>)
        pair(part) ==
            LET kv == Split(part, "=")
            IN  <<QueryUnescape(kv[1]),
                  QueryUnescape(JoinWith(Tail(kv), "="))>>
    IN  [i \in 1..Len(parts) |-> pair(parts[i])]

\* the values a parsed query holds for a key
ValuesOf(pq, key) ==
    LET hits == SelectSeq(pq, LAMBDA kv : kv[1] = <<key>>)
    IN  [i \in 1..Len(hits) |-> hits[i][2]]

DigitValue(t) == CHOOSE n \in 0..9 : Digits[n + 1] = t

IsDecimal(s) ==
    /\ s # <<>>
    /\ \A i \in 1..Len(s) : \E n \in 0..9 : Digits[n + 1] = s[i]
    /\ (Len(s) > 1 => s[1] # "0")

RECURSIVE DecimalValue(_)
DecimalValue(s) ==
    IF s = <<>> THEN 0
    ELSE 10 * DecimalValue(SubSeq(s, 1, Len(s) - 1)) + DigitValue(s[Len(s)])

AllListOps == ListOps \cup NamedListOps \cup {"GetRuns"}

\* C6: for every list operation the query string sent holds the key limit
\* iff limit > 0, with the decimal string of limit as its value; the key asc
\* with an empty value iff asc is true; the key start iff start is non-empty,
\* with a value that decodes to start.
C6_ListQuery ==
    \A c \in DOMAIN calls :
        (calls[c].pc = "inflight" /\ calls[c].inv.op \in AllListOps) =>
            LET inv == calls[c].inv
                pq == ParseQuery(QueryOf(calls[c].req.URL))
                limit == ValuesOf(pq, "limit")
                asc == ValuesOf(pq, "asc")
                start == ValuesOf(pq, "start")
            IN  /\ (limit # <<>>) <=> (inv.limit > 0)
                /\ inv.limit > 0 =>
                       /\ Len(limit) = 1
                       /\ IsDecimal(limit[1])
                       /\ DecimalValue(limit[1]) = inv.limit
                /\ (asc # <<>>) <=> inv.asc
                /\ inv.asc => asc = << <<>> >>
                /\ (start # <<>>) <=> (inv.start # <<>>)
                /\ inv.start # <<>> => start = <<inv.start>>

C6_Witness ==
    \E c \in DOMAIN calls :
        /\ calls[c].pc = "inflight"
        /\ calls[c].inv.op = "GetRuns"
        /\ calls[c].inv.phase = << <<"&", "start", "=", "a">>, <<>> >>
        /\ calls[c].inv.start = <<"&", "a">>
        /\ calls[c].inv.limit = 10
        /\ calls[c].inv.asc

\* C7: every request handed to the transport has an Authorization header;
\* its value is "token <client token>" unless the caller's header set has an
\* Authorization entry, and then it is the caller's value.
C7_Authorization ==
    \A c \in DOMAIN calls :
        calls[c].pc = "inflight" =>
            LET caller == IF calls[c].inv.op = "doRequest"
                          THEN calls[c].inv.header ELSE jsonContent
                sent == calls[c].req.Header
            IN  /\ "Authorization" \in DOMAIN sent
                /\ sent["Authorization"] =
                       IF "Authorization" \in DOMAIN caller
                       THEN caller["Authorization"]
                       ELSE <<"token " \o client.token>>
                /\ \A k \in DOMAIN caller : k \in DOMAIN sent /\ sent[k] = caller[k]

C7_Witness ==
    \E c \in DOMAIN calls :
        /\ calls[c].pc = "inflight"
        /\ calls[c].inv.op = "doRequest"
        /\ "Authorization" \in DOMAIN calls[c].inv.header
        /\ calls[c].req.Header["Authorization"] = <<"Bearer x">>
        /\ client.token = "s3cr3t"

ProjectOps ==
    {"GetCurrentUserProjects", "GetUserProjects", "GetOrgProjects",
     "CreateCurrentUserProject", "CreateUserProject", "CreateOrgProject",
     "DeleteCurrentUserProject", "DeleteUserProject", "DeleteOrgProject"}

OwnerType(op) ==
    IF op \in {"GetOrgProjects", "CreateOrgProject", "DeleteOrgProject"}
    THEN "org" ELSE "user"

NoDoubleSlash(p) == \A i \in 1..(Len(p) - 1) : ~(p[i] = "/" /\ p[i + 1] = "/")

\* a rooted path whose segments are all non-empty; the root itself has none
NoEmptySegment(p) ==
    /\ p # <<>>
    /\ p[1] = "/"
    /\ p = <<"/">> \/ \A i \in 1..Len(Split(Tail(p), "/")) : Split(Tail(p), "/")[i] # <<>>

\* C10: for owner type user or org and every owner name, the path that
\* getProjects, createProject and deleteProject build has no empty segment
\* and no double slash; an empty owner name leaves no segment, and
\* GetCurrentUserProjects(ctx, "", 10, true) issues GET on
\* <base>/api/v1alpha/user/projects?asc=&limit=10.
C10_ProjectPaths ==
    \A c \in DOMAIN calls :
        (calls[c].pc \in {"inflight", "done"} /\ calls[c].inv.op \in ProjectOps) =>
            LET inv == calls[c].inv
                p == calls[c].path
            IN  /\ NoDoubleSlash(p)
                /\ NoEmptySegment(p)
                /\ (inv.a1 = <<>> /\ inv.op \notin {"DeleteCurrentUserProject",
                                                     "DeleteUserProject", "DeleteOrgProject"})
                       => p = <<"/", OwnerType(inv.op), "/", "projects">>
                /\ (/\ calls[c].pc = "inflight"
                    /\ inv.op = "GetCurrentUserProjects"
                    /\ inv.start = <<>> /\ inv.limit = 10 /\ inv.asc)
                       => /\ calls[c].req.Method = "GET"
                          /\ calls[c].req.URL =
                                 client.url \o <<"/", "api", "/", "v1alpha", "/", "user", "/",
                                                 "projects", "?", "asc", "=", "&", "limit",
                                                 "=", "1", "0">>

C10_Witness ==
    \E c \in DOMAIN calls :
        /\ calls[c].pc = "inflight"
        /\ calls[c].inv.op = "GetCurrentUserProjects"
        /\ calls[c].inv.start = <<>>
        /\ calls[c].inv.limit = 10
        /\ calls[c].inv.asc
        /\ client.url = HttpH


(***************************************************************************)
(* Properties of the pipeline (Spec)                                       *)
(***************************************************************************)
\* the calls whose c.client.Do has returned a response
Answered == {c \in Calls({"decoding", "done"}) : calls[c].delivered}

In2xx(code) == 200 <= code /\ code <= 299

\* C1: when the transport delivers a response, getResponse returns a nil
\* error if and only if the status code is in 200..299.
C1_StatusDecidesError ==
    \A c \in Answered :
        (calls[c].gr.err.kind = "nil") <=> In2xx(calls[c].resp.StatusCode)

C1_Witness ==
    \E c \in Answered :
        /\ calls[c].resp.StatusCode = 300
        /\ calls[c].gr.err.kind = "status"
        /\ calls[c].pc = "done"

\* C2: for a non-2xx response whose body is read in full, the error text is
\* the status line when the body has 0 or 1 bytes and the body itself when
\* it has 2 or more; DeleteOrg answered 404 "org not found" returns the
\* error "org not found".
C2_ErrorText ==
    \A c \in Answered :
        (/\ calls[c].pc = "done"
         /\ ~In2xx(calls[c].resp.StatusCode)
         /\ ~calls[c].resp.readFails) =>
            LET resp == calls[c].resp
                text == calls[c].ret.err.text
            IN  /\ calls[c].ret.err.kind = "status"
                /\ Len(resp.Body) \in {0, 1} => text = resp.Status
                /\ Len(resp.Body) >= 2 => text = resp.Body
                /\ (resp.StatusCode = 404 /\ Len(resp.Body) \in {0, 1})
                       => text = <<"4", "0", "4", " ", "Not Found">>
                /\ (calls[c].inv.op = "DeleteOrg" /\ resp.StatusCode = 404
                        /\ resp.Body = OrgNotFound)
                       => text = <<"o", "r", "g", " ", "n", "o", "t", " ",
                                   "f", "o", "u", "n", "d">>

C2_Witness ==
    \E c \in Answered :
        /\ calls[c].pc = "done"
        /\ calls[c].inv.op = "DeleteOrg"
        /\ calls[c].inv.a1 = <<"a">>
        /\ calls[c].resp.StatusCode = 404
        /\ calls[c].resp.Body = OrgNotFound
        /\ calls[c].ret.err.text = OrgNotFound

\* C3: on every exit path of every public operation the body of a response
\* the transport delivered is closed when the operation returns.
C3_BodyClosedOnReturn ==
    \A c \in Answered : calls[c].pc = "done" => ~calls[c].bodyOpen

\* C4: whenever the transport delivered a response, the operation returns
\* it non-nil, also alongside an error.
C4_ResponseReturned ==
    \A c \in Answered :
        calls[c].pc = "done" =>
            /\ ~calls[c].ret.respNil
            /\ calls[c].ret.resp = calls[c].resp

HandedToTransport(c) == \E e \in transportLog : e.call = c

\* C5: when marshaling the payload of a body-carrying operation fails, the
\* operation returns (nil result, nil response, the marshal error) and the
\* transport is not invoked.
C5_MarshalFailure ==
    \A c \in Calls({"inflight", "decoding", "done", "panicked"}) :
        (calls[c].inv.op \in BodyOps /\ calls[c].inv.payload = "cyclic") =>
            /\ calls[c].pc = "done"
            /\ calls[c].ret.result = "nil"
            /\ calls[c].ret.respNil
            /\ calls[c].ret.err.kind = "marshal"
            /\ ~HandedToTransport(c)
            /\ ~calls[c].delivered

C5_Witness ==
    \E c \in Calls({"done"}) :
        /\ calls[c].inv.op = "CreateUser"
        /\ calls[c].inv.payload = "cyclic"
        /\ calls[c].ret.err.kind = "marshal"

\* C9: no failure aborts a call by a panic; a URL-construction failure is
\* returned as an error with a nil response before any transport call, and
\* every other failure is returned as an error value too.
C9_NoPanic ==
    \A c \in DOMAIN calls :
        /\ calls[c].pc # "panicked"
        /\ (calls[c].pc = "done" /\ calls[c].ret.err.kind = "url")
               => calls[c].ret.respNil /\ ~HandedToTransport(c)

(***************************************************************************)
(* SpecConc: NConc calls in flight at once against a server that answers   *)
(* each request with an echo of it.                                        *)
(***************************************************************************)
ConcClient == NewClient(HttpH \o <<"/">>, "s3cr3t")

ConcInvocations ==
    {[Inv0 EXCEPT !.op = o, !.a1 = x] : o \in {"GetUser", "DeleteOrg"},
                                        x \in {<<"a">>, <<"b">>}}
    \cup {[Inv0 EXCEPT !.op = "CreateUser", !.payload = p] : p \in {"good", "other"}}

Echo(req) ==
    <<"{", req.Method>> \o req.URL \o req.Header["Authorization"]
        \o SelectSeq(req.Body, LAMBDA t : t \notin {"{", "}"}) \o <<"}">>

MockServer(req) ==
    [hasResp |-> TRUE,
     resp |-> [StatusCode |-> 200, Status |-> StatusLine(200), Body |-> Echo(req),
               readFails |-> FALSE],
     err |-> NoError]

InitConc ==
    /\ client = ConcClient
    /\ jsonContent = JsonContentValue
    /\ calls = [c \in 1..NConc |-> IdleCall]
    /\ transportLog = {}

NextConc ==
    \/ \E c \in Calls({"idle"}) : \E inv \in ConcInvocations : Invoke(c, inv)
    \/ \E c \in Calls({"inflight"}) : \E e \in transportLog :
           e.call = c /\ Respond(c, MockServer(e.req))
    \/ \E c \in Calls({"decoding"}) : Decode(c)

SpecConc == InitConc /\ [][NextConc]_vars

\* the request and the echo a call must get, written out from its own
\* arguments, the base URL and the token
ExpectedURL(inv) ==
    <<"http", ":", "/", "/", "h", "/", "api", "/", "v1alpha">> \o
        CASE inv.op = "GetUser" -> <<"/", "user", "/">> \o inv.a1
          [] inv.op = "DeleteOrg" -> <<"/", "orgs", "/">> \o inv.a1
          [] inv.op = "CreateUser" -> <<"/", "users">>

ExpectedMethod(inv) ==
    CASE inv.op = "GetUser" -> "GET"
      [] inv.op = "DeleteOrg" -> "DELETE"
      [] inv.op = "CreateUser" -> "PUT"

ExpectedBody(inv) ==
    IF inv.op = "CreateUser" THEN <<"{", inv.payload, "}">> ELSE <<>>

ExpectedEcho(inv) ==
    <<ExpectedMethod(inv)>> \o ExpectedURL(inv) \o <<"token s3cr3t">>
        \o (IF inv.op = "CreateUser" THEN <<inv.payload>> ELSE <<>>)

\* C8: with calls running concurrently on one Client, each call's request is
\* built from its own arguments and the Client's base URL and token only,
\* each call gets the response and the decoded result of its own request,
\* and no call writes the Client configuration or jsonContent.
C8_Isolation ==
    /\ client = ConcClient
    /\ jsonContent = JsonContentValue
    /\ \A c \in Calls({"inflight", "decoding", "done"}) :
           LET inv == calls[c].inv
           IN  /\ calls[c].req.Method = ExpectedMethod(inv)
               /\ calls[c].req.URL = ExpectedURL(inv)
               /\ calls[c].req.Body = ExpectedBody(inv)
               /\ calls[c].req.Header =
                      ("Authorization" :> <<"token s3cr3t">>)
                          @@ ("content-type" :> <<"application/json">>)
               /\ \E e \in transportLog : e.call = c /\ e.req = calls[c].req
               /\ calls[c].pc \in {"decoding", "done"} =>
                      calls[c].resp.Body = <<"{">> \o ExpectedEcho(inv) \o <<"}">>
               /\ calls[c].pc = "done" =>
                      /\ calls[c].ret.err = NoError
                      /\ calls[c].ret.resp = calls[c].resp
                      /\ inv.op # "DeleteOrg" => calls[c].ret.value = ExpectedEcho(inv)

C8_Witness ==
    \E c1, c2 \in DOMAIN calls :
        /\ calls[c1].pc = "done"
        /\ calls[c1].inv.op = "GetUser"
        /\ calls[c1].inv.a1 = <<"a">>
        /\ calls[c2].pc = "decoding"
        /\ calls[c2].inv.op = "CreateUser"
        /\ calls[c2].inv.payload = "other"

====
